---- MODULE Spec2Model ----
(***************************************************************************)
(* Model of the TextInverter web application (reversestring-GEZT/script.js) *)
(* A string is a sequence of UTF-16 code units; a code unit is written as   *)
(* a one-character TLA+ string.  "HI" and "LO" stand for the two halves of  *)
(* a surrogate pair, which String.prototype.split('') separates.            *)
(***************************************************************************)
EXTENDS Integers, Sequences, FiniteSets, TLC

\* ------------------------------------------------------------------ bounds
MaxLen == 4        \* longest argument given to reverseString on its own
MaxInput == 2      \* longest text typed in the input field
MaxInFlight == 2   \* most setTimeout(…, 100) callbacks pending at once
MaxMessages == 2   \* most message elements that still own a pending timer
MaxCopies == 1     \* most clipboard.writeText promises pending at once
MaxSessions == 2   \* page loads after the first one

\* -------------------------------------------------------------- alphabets
CodeUnits == {"a", "b", "HI", "LO"}
TypedUnits == {"a", "b", " "}
WhiteSpace == {" "}

Str(units, n) == UNION {[1..k -> units] : k \in 0..n}

NoValue == "null"
StoredThemes == {NoValue, "", "light", "dark", "sepia"}

VARIABLES
  str, once, twice, rpc,
  inputText, resultText, currentCount,
  invertButton, copyButton, clearButton,
  inversions, messages,
  clipboardWrites, secureContext, lastWrite,
  dataTheme, themePreference, prefersDark, hasMatchMedia,
  lastToggled, session, engineFailure, staleCallbacks

reverseVars == <<str, once, twice, rpc>>
fieldVars == <<inputText, resultText, currentCount>>
buttonVars == <<invertButton, copyButton, clearButton>>
clipVars == <<clipboardWrites, secureContext, lastWrite>>
themeVars == <<dataTheme, themePreference, prefersDark, hasMatchMedia, lastToggled, session>>
vars == <<reverseVars, fieldVars, buttonVars, inversions, messages, clipVars,
          themeVars, engineFailure, staleCallbacks>>

\* ------------------------------------------------- String.prototype pieces
\* str.split(''): one array element per code unit, each a string of length 1.
split(s) == [i \in 1..Len(s) |-> <<s[i]>>]

\* Array.prototype.reverse, after two faulty variants of it: one that moves
\* the first element to the end, one that leaves the array as it is.
RotateLeft(a) == IF a = <<>> THEN a ELSE Tail(a) \o <<Head(a)>>
KeepOrder(a) == a
reverse(a) == [i \in 1..Len(a) |-> a[Len(a) + 1 - i]]

\* Array.prototype.join(sep)
RECURSIVE joinWith(_, _)
joinWith(a, sep) ==
  IF a = <<>> THEN <<>>
  ELSE IF Len(a) = 1 THEN a[1]
  ELSE a[1] \o sep \o joinWith(Tail(a), sep)

\* join('') as the code calls it, after the faulty variant join(), whose
\* separator is a comma.
JoinDefaultSeparator(a) == joinWith(a, <<",">>)
join(a) == joinWith(a, <<>>)

\* TextInverter.reverseString
reverseString(s) == join(reverse(split(s)))

\* String.prototype.trim
RECURSIVE trimStart(_)
trimStart(s) ==
  IF s # <<>> /\ Head(s) \in WhiteSpace THEN trimStart(Tail(s)) ELSE s

RECURSIVE trimEnd(_)
trimEnd(s) ==
  IF s # <<>> /\ s[Len(s)] \in WhiteSpace
  THEN trimEnd(SubSeq(s, 1, Len(s) - 1)) ELSE s

trim(s) == trimEnd(trimStart(s))

\* ------------------------------------------------------------ notifications
\* The texts given to showMessage, written as "<type>:<what>".
WarnEmptyInput == "warning:ingresa-algun-texto"
OkInverted == "success:texto-invertido"
ErrInvert == "error:al-invertir"
OkCleared == "success:campos-limpiados"
WarnNothingToCopy == "warning:no-hay-texto-que-copiar"
OkCopied == "success:texto-copiado"
ErrCopy == "error:al-copiar"
OkDarkMode == "success:modo-oscuro"
OkLightMode == "success:modo-claro"

\* A message element: its text, whether it is in the document, and which of
\* its two timers is pending ("shown": the 3000 ms one, "fading": the 300 ms
\* one).  messages lists, in creation order, the elements that still own a
\* pending timer.  id tells an element object apart from the one created
\* before it: the ids alternate along the list.  The element in the document
\* is the last one created, so two elements that are in the document one
\* directly after the other never carry the same id.
MessageIds == {0, 1}

FreshId(ms) == IF ms = <<>> THEN 0 ELSE 1 - ms[Len(ms)].id

MessageEl(text, id) ==
  [text |-> text, attached |-> TRUE, stage |-> "shown", id |-> id]

\* document.querySelector('.message'): index of the first attached element,
\* 0 when there is none.
querySelectorMessage(ms) ==
  IF \E i \in 1..Len(ms) : ms[i].attached
  THEN CHOOSE i \in 1..Len(ms) :
         ms[i].attached /\ \A j \in 1..(i - 1) : ~ms[j].attached
  ELSE 0

\* Element.remove(): the element leaves the document, its timers stay.
removeEl(ms, i) == [ms EXCEPT ![i].attached = FALSE]

\* TextInverter.showMessage, after a faulty variant that leaves the existing
\* message in the document.
ShowWithoutRemoving(ms, text) == Append(ms, MessageEl(text, FreshId(ms)))
showMessage(ms, text) ==
  LET existingMessage == querySelectorMessage(ms)
      cleared == IF existingMessage # 0 THEN removeEl(ms, existingMessage) ELSE ms
  IN Append(cleared, MessageEl(text, FreshId(ms)))

\* The elements of the document that carry class "message".
AttachedMessages(ms) == {i \in 1..Len(ms) : ms[i].attached}
AttachedTexts(ms) == {ms[i].text : i \in AttachedMessages(ms)}

\* ------------------------------------------------------------------ buttons
\* TextInverter.updateButtonStates: the three disabled flags.  The faulty
\* variant before it derives the copy button from the input field.
UpdateFromInputOnly(inp, res) ==
  LET hasInputText == Len(trim(inp)) > 0
      hasResultText == Len(res) > 0
  IN [invert |-> ~hasInputText,
      copy |-> ~hasInputText,
      clear |-> ~hasInputText /\ ~hasResultText]

updateButtonStates(inp, res) ==
  LET hasInputText == Len(trim(inp)) > 0
      hasResultText == Len(res) > 0
  IN [invert |-> ~hasInputText,
      copy |-> ~hasResultText,
      clear |-> ~hasInputText /\ ~hasResultText]

\* TextInverter.setLoadingState: the invert button's disabled flag and its
\* "loading" class.
setLoadingState(loading) == [disabled |-> loading, loading |-> loading]

\* TextInverter.updateCharCount
updateCharCount(inp) == Len(inp)

\* -------------------------------------------------------------------- theme
Truthy(v) == v # NoValue /\ v # ""

\* TextInverter.initializeTheme: the theme handed to applyTheme.  Of the two
\* faulty variants before it, one ignores the saved preference and one
\* ignores the ambient display mode.
PreferSystemTheme(saved, dark, mm) == IF mm /\ dark THEN "dark" ELSE "light"
DefaultToLight(saved, dark, mm) == IF Truthy(saved) THEN saved ELSE "light"
initializeTheme(saved, dark, mm) ==
  LET systemPrefersDark == mm /\ dark
  IN IF Truthy(saved) THEN saved
     ELSE IF systemPrefersDark THEN "dark" ELSE "light"

\* TextInverter.toggleTheme: the new theme.
newThemeOf(attr) ==
  LET currentTheme == IF Truthy(attr) THEN attr ELSE "light"
  IN IF currentTheme = "light" THEN "dark" ELSE "light"

\* ---------------------------------------------------------- construction
\* The state left by new TextInverter() on a freshly loaded page: init()
\* applies the theme, then updateCharCount() and updateButtonStates() run on
\* the empty fields.
Constructed(saved, dark, mm) ==
  /\ inputText = <<>>
  /\ resultText = <<>>
  /\ currentCount = updateCharCount(<<>>)
  /\ invertButton = [disabled |-> updateButtonStates(<<>>, <<>>).invert,
                     loading |-> FALSE]
  /\ copyButton = updateButtonStates(<<>>, <<>>).copy
  /\ clearButton = updateButtonStates(<<>>, <<>>).clear
  /\ inversions = <<>>
  /\ messages = <<>>
  /\ clipboardWrites = 0
  /\ lastWrite = "none"
  /\ engineFailure = "none"
  /\ staleCallbacks = 0
  /\ themePreference = saved
  /\ prefersDark = dark
  /\ hasMatchMedia = mm
  /\ dataTheme = initializeTheme(saved, dark, mm)

ReverseIdle == str = <<>> /\ once = <<>> /\ twice = <<>> /\ rpc = "idle"

\* A first visit with an empty preference store, on a host whose ambient
\* display mode is light.
Init ==
  /\ ReverseIdle
  /\ Constructed(NoValue, FALSE, TRUE)
  /\ secureContext \in BOOLEAN
  /\ lastToggled = "none"
  /\ session = 0

\* Every handler below that ends in showMessage, and every start of a delayed
\* operation that will end in one, needs a free slot among the MaxMessages
\* tracked elements; the slots of operations already under way are reserved.
Room == Len(messages) + Len(inversions) + clipboardWrites < MaxMessages

\* ------------------------------------------------------- input field events
\* inputText 'input' listener: the user changed the text of the field.
inputEvent(texts) ==
  \E v \in texts :
    /\ v # inputText
    /\ inputText' = v
    /\ currentCount' = updateCharCount(v)
    /\ LET b == updateButtonStates(v, resultText)
       IN /\ invertButton' = [invertButton EXCEPT !.disabled = b.invert]
          /\ copyButton' = b.copy
          /\ clearButton' = b.clear
    /\ UNCHANGED <<resultText, inversions, messages, clipVars, themeVars,
                   engineFailure, reverseVars, staleCallbacks>>

\* Any text of at most MaxInput code units can be typed.
InputEvent == inputEvent(Str(TypedUnits, MaxInput))

\* The texts typed where the order of events is what matters: the empty one,
\* a blank one, a single letter and a text that differs from its reversal.
LiveTexts == {<<>>, <<" ">>, <<"b">>, <<"a", "b">>}
InputEventLive == inputEvent(LiveTexts)

\* ---------------------------------------------------------------- inversion
\* TextInverter.invertText, up to its return: the validation, and for valid
\* text setLoadingState(true) and setTimeout(callback, 100) with the trimmed
\* text captured by the callback.  Neither statement of the try block throws,
\* so its catch clause is never entered.  validated is the text the handler
\* tests and captures; its faulty variant omits trim().
ValidateRawValue(v) == v
validated(v) == trim(v)

\* A pending callback: text is the constant captured by its closure; raw
\* records the value the input field had when invertText ran.  Callbacks run
\* in the order they were scheduled, and staleCallbacks records how many of
\* the pending ones, counted from the head of inversions, were scheduled
\* before the latest run of clearFields.
Inversion(text, raw) == [text |-> text, raw |-> raw]

invertText ==
  LET text == validated(inputText)
  IN /\ Room
     /\ IF text = <<>>
        THEN /\ messages' = showMessage(messages, WarnEmptyInput)
             /\ UNCHANGED <<invertButton, inversions>>
        ELSE /\ Len(inversions) < MaxInFlight
             /\ invertButton' = setLoadingState(TRUE)
             /\ inversions' = Append(inversions, Inversion(text, inputText))
             /\ UNCHANGED messages
     /\ UNCHANGED <<fieldVars, copyButton, clearButton, clipVars, themeVars,
                    engineFailure, reverseVars, staleCallbacks>>

\* invertButton 'click' listener; a disabled button receives no click.
InvertClick == ~invertButton.disabled /\ invertText

\* inputText 'keydown' listener, for Ctrl/Cmd+Enter.
InvertKeydown == invertText

\* The callback given to setTimeout by invertText.  Callbacks of equal delay
\* run in the order they were scheduled.  throws: whether the call of
\* reverseString raises; the callback then ends there and the exception
\* reaches the window 'error' listener.  The faulty variant before it omits
\* setLoadingState(false) and the update of the invert button.
CallbackKeepsLoading(throws) ==
  /\ inversions # <<>>
  /\ inversions' = Tail(inversions)
  /\ resultText' = reverseString(Head(inversions).text)
  /\ invertButton' = invertButton
  /\ copyButton' = updateButtonStates(inputText, resultText').copy
  /\ clearButton' = updateButtonStates(inputText, resultText').clear
  /\ messages' = showMessage(messages, OkInverted)
  /\ staleCallbacks' = IF staleCallbacks > 0 THEN staleCallbacks - 1 ELSE 0
  /\ UNCHANGED <<inputText, currentCount, clipVars, themeVars, engineFailure,
                 reverseVars>>

invertCallback(throws) ==
  /\ inversions # <<>>
  /\ inversions' = Tail(inversions)
  /\ IF throws
     THEN /\ engineFailure' = "uncaught"
          /\ UNCHANGED <<resultText, buttonVars, messages>>
     ELSE /\ resultText' = reverseString(Head(inversions).text)
          /\ LET loaded == setLoadingState(FALSE)
                 b == updateButtonStates(inputText, resultText')
             IN /\ invertButton' = [loaded EXCEPT !.disabled = b.invert]
                /\ copyButton' = b.copy
                /\ clearButton' = b.clear
          /\ messages' = showMessage(messages, OkInverted)
          /\ UNCHANGED engineFailure
  /\ staleCallbacks' = IF staleCallbacks > 0 THEN staleCallbacks - 1 ELSE 0
  /\ UNCHANGED <<inputText, currentCount, clipVars, themeVars, reverseVars>>

InvertCallback == invertCallback(FALSE)
InvertCallbackThrows == invertCallback(TRUE)

\* -------------------------------------------------------------------- clear
\* TextInverter.clearFields, from the clearButton 'click' listener.
clearFields ==
  /\ ~clearButton
  /\ Room
  /\ inputText' = <<>>
  /\ resultText' = <<>>
  /\ currentCount' = updateCharCount(inputText')
  /\ LET b == updateButtonStates(inputText', resultText')
     IN /\ invertButton' = [invertButton EXCEPT !.disabled = b.invert]
        /\ copyButton' = b.copy
        /\ clearButton' = b.clear
  /\ messages' = showMessage(messages, OkCleared)
  /\ staleCallbacks' = Len(inversions)
  /\ UNCHANGED <<inversions, clipVars, themeVars, engineFailure, reverseVars>>

\* --------------------------------------------------------------------- copy
\* What document.execCommand('copy') can do: copy and return true, copy
\* nothing and return false, or throw.
ExecCommandOutcomes == {"true", "false", "throws"}
\* How the promise of navigator.clipboard.writeText can settle.
WriteTextOutcomes == {"fulfilled", "rejected"}
\* The outcomes after which the text is on the clipboard.
WriteSucceeded == {"true", "fulfilled"}

\* TextInverter.fallbackCopyToClipboard: whether the call returns or throws.
\* The value returned by execCommand is not looked at; the finally clause
\* removes the helper textarea and lets an exception through.
fallbackCopyToClipboard(outcome) ==
  IF outcome = "throws" THEN "throws" ELSE "returns"

\* TextInverter.copyResult up to its first suspension, from the copyButton
\* 'click' listener.  On the clipboard-API path the handler suspends at the
\* await; on the legacy path it runs to its end.
copyResult ==
  /\ ~copyButton
  /\ Room
  /\ IF resultText = <<>>
     THEN /\ messages' = showMessage(messages, WarnNothingToCopy)
          /\ UNCHANGED <<clipboardWrites, lastWrite>>
     ELSE IF secureContext
     THEN /\ clipboardWrites < MaxCopies
          /\ clipboardWrites' = clipboardWrites + 1
          /\ lastWrite' = "pending"
          /\ UNCHANGED messages
     ELSE \E outcome \in ExecCommandOutcomes :
            /\ lastWrite' = outcome
            /\ messages' = showMessage(messages,
                 IF fallbackCopyToClipboard(outcome) = "throws"
                 THEN ErrCopy ELSE OkCopied)
            /\ UNCHANGED clipboardWrites
  /\ UNCHANGED <<fieldVars, buttonVars, inversions, secureContext, themeVars,
                 engineFailure, reverseVars, staleCallbacks>>

\* TextInverter.copyResult after the await: the promise settled.
SettledMessage(outcome) == IF outcome = "rejected" THEN ErrCopy ELSE OkCopied

copyResultResumed ==
  /\ clipboardWrites > 0
  /\ \E outcome \in WriteTextOutcomes :
       /\ lastWrite' = outcome
       /\ messages' = showMessage(messages, SettledMessage(outcome))
  /\ clipboardWrites' = clipboardWrites - 1
  /\ UNCHANGED <<fieldVars, buttonVars, inversions, secureContext, themeVars,
                 engineFailure, reverseVars, staleCallbacks>>

\* -------------------------------------------------------------------- theme
\* TextInverter.toggleTheme, from the themeToggle 'click' listener.  The
\* faulty variant before it omits localStorage.setItem.
ToggleWithoutSaving ==
  /\ Room
  /\ dataTheme' = newThemeOf(dataTheme)
  /\ lastToggled' = dataTheme'
  /\ messages' = showMessage(messages,
       IF dataTheme' = "dark" THEN OkDarkMode ELSE OkLightMode)
  /\ UNCHANGED <<themePreference, prefersDark, hasMatchMedia, session, fieldVars,
                 buttonVars, inversions, clipVars, engineFailure, reverseVars, staleCallbacks>>

toggleTheme ==
  /\ Room
  /\ dataTheme' = newThemeOf(dataTheme)
  /\ themePreference' = dataTheme'
  /\ lastToggled' = dataTheme'
  /\ messages' = showMessage(messages,
       IF dataTheme' = "dark" THEN OkDarkMode ELSE OkLightMode)
  /\ UNCHANGED <<prefersDark, hasMatchMedia, session, fieldVars, buttonVars,
                 inversions, clipVars, engineFailure, reverseVars, staleCallbacks>>

\* The 'change' listener of matchMedia('(prefers-color-scheme: dark)'): the
\* host switched its ambient display mode.
ColorSchemeChange ==
  /\ hasMatchMedia
  /\ prefersDark' = ~prefersDark
  /\ dataTheme' = IF ~Truthy(themePreference)
                  THEN (IF prefersDark' THEN "dark" ELSE "light")
                  ELSE dataTheme
  /\ UNCHANGED <<themePreference, hasMatchMedia, lastToggled, session, fieldVars,
                 buttonVars, inversions, messages, clipVars, engineFailure,
                 reverseVars, staleCallbacks>>

\* The page is loaded again: a new document, a new TextInverter, the same
\* localStorage; the host's ambient display mode may differ.
Reload ==
  /\ session < MaxSessions
  /\ session' = session + 1
  /\ \E dark \in BOOLEAN :
       /\ prefersDark' = dark
       /\ dataTheme' = initializeTheme(themePreference, dark, hasMatchMedia)
  /\ inputText' = <<>>
  /\ resultText' = <<>>
  /\ currentCount' = updateCharCount(<<>>)
  /\ invertButton' = [disabled |-> updateButtonStates(<<>>, <<>>).invert,
                      loading |-> FALSE]
  /\ copyButton' = updateButtonStates(<<>>, <<>>).copy
  /\ clearButton' = updateButtonStates(<<>>, <<>>).clear
  /\ inversions' = <<>>
  /\ messages' = <<>>
  /\ clipboardWrites' = 0
  /\ lastWrite' = "none"
  /\ engineFailure' = "none"
  /\ staleCallbacks' = 0
  /\ UNCHANGED <<themePreference, hasMatchMedia, lastToggled, secureContext,
                 reverseVars>>

\* ----------------------------------------------------------- message timers
\* Timers of equal delay run in the order they were set, so the 3000 ms
\* timers fire in creation order and so do the 300 ms timers they set.
UiUnchangedByTimers ==
  UNCHANGED <<fieldVars, buttonVars, inversions, clipVars, themeVars,
              engineFailure, reverseVars, staleCallbacks>>

\* The 3000 ms callback of showMessage: the element starts to fade and its
\* 300 ms timer is set.  The faulty variant before it fades the element and
\* sets no timer.
TimeoutWithoutRemoval ==
  /\ \E i \in 1..Len(messages) :
       /\ messages[i].stage = "shown"
       /\ \A j \in 1..(i - 1) : messages[j].stage # "shown"
       /\ messages' = [messages EXCEPT ![i].stage = "faded"]
  /\ UiUnchangedByTimers

MessageTimeout ==
  /\ \E i \in 1..Len(messages) :
       /\ messages[i].stage = "shown"
       /\ \A j \in 1..(i - 1) : messages[j].stage # "shown"
       /\ messages' = [messages EXCEPT ![i].stage = "fading"]
  /\ UiUnchangedByTimers

\* The 300 ms callback: the element is removed from its parent if it has one.
\* It owns no timer afterwards.  The faulty variant before it removes the
\* element that document.querySelector('.message') finds at that moment.
RemovalByQuery ==
  /\ messages # <<>>
  /\ messages[1].stage = "fading"
  /\ LET found == querySelectorMessage(messages)
     IN messages' = Tail(IF found # 0 THEN removeEl(messages, found) ELSE messages)
  /\ UiUnchangedByTimers

MessageRemoval ==
  /\ messages # <<>>
  /\ messages[1].stage = "fading"
  /\ messages' = Tail(messages)
  /\ UiUnchangedByTimers

\* ------------------------------------------------------------ specifications
\* One visit: every listener of the page, with any text of at most MaxInput
\* code units typed and both clipboard paths.  The host's ambient display
\* mode changes under SpecTheme.
Next ==
  \/ InputEvent
  \/ InvertClick
  \/ InvertKeydown
  \/ InvertCallback
  \/ clearFields
  \/ copyResult
  \/ copyResultResumed
  \/ toggleTheme
  \/ MessageTimeout
  \/ MessageRemoval

Spec == Init /\ [][Next]_vars

\* The delayed callbacks and the timers are run by the event loop: each one
\* that is pending is eventually run.
Fairness ==
  /\ WF_vars(InvertCallback)
  /\ WF_vars(copyResultResumed)
  /\ WF_vars(MessageTimeout)
  /\ WF_vars(MessageRemoval)

\* One visit on one host: the legacy clipboard path, a light ambient mode.
InitLive ==
  /\ ReverseIdle
  /\ Constructed(NoValue, FALSE, TRUE)
  /\ secureContext = FALSE
  /\ lastToggled = "none"
  /\ session = 0

NextLive ==
  \/ InputEventLive
  \/ InvertClick
  \/ InvertKeydown
  \/ InvertCallback
  \/ clearFields
  \/ copyResult
  \/ toggleTheme
  \/ MessageTimeout
  \/ MessageRemoval

SpecLive == InitLive /\ [][NextLive]_vars /\ Fairness

\* The same visit when the call of reverseString inside the delayed callback
\* may raise.
NextFault == NextLive \/ InvertCallbackThrows

SpecFault == InitLive /\ [][NextFault]_vars

\* The theme across page loads, for any content of the preference store and
\* any host.
InitTheme ==
  /\ ReverseIdle
  /\ \E saved \in StoredThemes, dark \in BOOLEAN, mm \in BOOLEAN :
       Constructed(saved, dark, mm)
  /\ secureContext \in BOOLEAN
  /\ lastToggled = "none"
  /\ session = 0

NextTheme ==
  \/ toggleTheme
  \/ ColorSchemeChange
  \/ Reload
  \/ MessageTimeout
  \/ MessageRemoval

SpecTheme == InitTheme /\ [][NextTheme]_vars

\* reverseString on its own: applied to any string of at most MaxLen code
\* units, then to its own result.
InitReverse ==
  /\ str \in Str(CodeUnits, MaxLen)
  /\ once = <<>>
  /\ twice = <<>>
  /\ rpc = "start"
  /\ Constructed(NoValue, FALSE, TRUE)
  /\ secureContext = TRUE
  /\ lastToggled = "none"
  /\ session = 0

UiUntouched ==
  UNCHANGED <<fieldVars, buttonVars, inversions, messages, clipVars, themeVars,
              engineFailure, staleCallbacks>>

ReverseOnce ==
  /\ rpc = "start"
  /\ once' = reverseString(str)
  /\ rpc' = "once"
  /\ UNCHANGED <<str, twice>>
  /\ UiUntouched

ReverseTwice ==
  /\ rpc = "once"
  /\ twice' = reverseString(once)
  /\ rpc' = "twice"
  /\ UNCHANGED <<str, once>>
  /\ UiUntouched

NextReverse == ReverseOnce \/ ReverseTwice

SpecReverse == InitReverse /\ [][NextReverse]_vars

\* ==================================================================== claims

\* C1: for every string s and every index i with 0 <= i < len(s), the code
\* unit of reverseString(s) at i is the code unit of s at len(s)-1-i (the
\* indices below are those of a TLA+ sequence, which start at 1).
C1_Mirror ==
  rpc \in {"once", "twice"} =>
    /\ DOMAIN once = DOMAIN str
    /\ \A i \in 1..Len(str) : once[i] = str[Len(str) + 1 - i]

\* A string of three distinct code units, a surrogate pair among them, has
\* been reversed.
C1_Witness ==
  /\ rpc = "once"
  /\ str = <<"a", "HI", "LO">>
  /\ once = <<"LO", "HI", "a">>

\* C2: reverseString is an involution: reversing the reversal of any string,
\* the empty string included, gives the string back.
C2_Involution == rpc = "twice" => twice = str

\* A string that is not a palindrome has been reversed twice.
C2_Witness ==
  /\ rpc = "twice"
  /\ Len(str) = 3
  /\ once # str
  /\ twice = str

\* C3: for every string s, the empty string included, reverseString(s) has as
\* many code units as s.
C3_SameLength == rpc \in {"once", "twice"} => Len(once) = Len(str)

\* A string of at least two code units has been reversed.
C3_Witness ==
  /\ rpc = "once"
  /\ Len(str) >= 2
  /\ Len(once) = Len(str)

\* r is s with its code units in the opposite order.
IsReversalOf(r, s) ==
  /\ Len(r) = Len(s)
  /\ \A i \in 1..Len(s) : r[i] = s[Len(s) + 1 - i]

Blank(s) == \A i \in 1..Len(s) : s[i] \in WhiteSpace

\* C4: when an inversion is triggered on text that is not whitespace-only,
\* the result field receives the reversal of the raw text of the input field,
\* leading and trailing whitespace included.
C4_RawTextReversed ==
  [][InvertCallback => IsReversalOf(resultText', Head(inversions).raw)]_vars

\* C5: invertText on an empty or whitespace-only input shows the warning and
\* attempts nothing: no callback is scheduled, the loading state is not
\* entered, the result field keeps its value.
C5_BlankRejected ==
  [][(Blank(inputText) /\ (InvertClick \/ InvertKeydown)) =>
       /\ AttachedTexts(messages') = {WarnEmptyInput}
       /\ UNCHANGED <<inversions, resultText, invertButton>>]_vars

\* Ctrl/Cmd+Enter on a whitespace-only input: the warning is on the page, no
\* callback is pending, the button is not loading.
C5_Witness ==
  /\ inputText = <<" ">>
  /\ AttachedTexts(messages) = {WarnEmptyInput}
  /\ inversions = <<>>
  /\ ~invertButton.loading

\* C6: if the reversal call throws, the failure is caught by the handler, the
\* generic error notification is shown and the loading state is left.
C6_FailureCaught ==
  [][InvertCallbackThrows =>
       /\ engineFailure' # "uncaught"
       /\ ErrInvert \in AttachedTexts(messages')
       /\ ~invertButton'.loading]_vars

\* C7: a failed clipboard write, on either path, shows the error notification
\* and not the success one; the success notification is shown only after a
\* write that succeeded.
C7_CopyFailureReported ==
  [][((copyResult \/ copyResultResumed) /\ lastWrite' \notin {"none", "pending"}) =>
       IF lastWrite' \in WriteSucceeded
       THEN AttachedTexts(messages') = {OkCopied}
       ELSE AttachedTexts(messages') = {ErrCopy}]_vars

\* C8: at most one inversion is in flight in every reachable state.
C8_NoOverlap == Len(inversions) <= 1

\* The callbacks invertText can have scheduled.
LiveInversions == {Inversion(trim(v), v) : v \in LiveTexts}

InFlight(e) == \E i \in 1..Len(inversions) : inversions[i] = e

\* C9: an inversion that was started runs to completion whatever the user does
\* during the delay: eventually the reversal of its text is in the result
\* field, the loading state is cleared and the success notification is shown.
C9_RunsToCompletion ==
  \A e \in LiveInversions :
    InFlight(e) ~>
      /\ IsReversalOf(resultText, e.text)
      /\ ~invertButton.loading
      /\ AttachedTexts(messages) = {OkInverted}

\* An inversion of "ab" has completed although the input field was cleared
\* during the delay.
C9_Witness ==
  /\ inputText = <<>>
  /\ resultText = <<"b", "a">>
  /\ inversions = <<>>
  /\ ~invertButton.loading
  /\ AttachedTexts(messages) = {OkInverted}

\* C10: after toggleTheme has set the theme to v, a new session applies v
\* whatever the host's ambient display mode is then.
C10_ThemeRoundTrip ==
  [][(Reload /\ lastToggled # "none") => dataTheme' = lastToggled]_vars

\* A later session shows the light theme that was toggled earlier on a host
\* that prefers dark, and one shows the dark theme on a host that prefers
\* light.
C10_Witness ==
  /\ session > 0
  /\ messages = <<>>
  /\ lastToggled = "light"
  /\ dataTheme = "light"
  /\ prefersDark
  /\ hasMatchMedia

Themes == {"light", "dark"}

\* C11: the applied theme and any persisted preference are 'light' or 'dark'
\* in every reachable state, whatever the preference store held when the
\* session started.
C11_TwoThemes ==
  /\ dataTheme \in Themes
  /\ (lastToggled # "none" => themePreference \in Themes)

\* C12: while no preference is stored and the ambient signal is available,
\* the applied theme is 'dark' exactly when the host prefers dark, at
\* initialisation and after every change of the host's preference.
C12_FollowsAmbient ==
  (themePreference = NoValue /\ hasMatchMedia) =>
    /\ dataTheme \in Themes
    /\ (dataTheme = "dark" <=> prefersDark)

\* A later session without a stored preference, on a host that prefers dark,
\* shows the dark theme.
C12_Witness ==
  /\ themePreference = NoValue
  /\ hasMatchMedia
  /\ prefersDark
  /\ session > 0
  /\ dataTheme = "dark"

C14_DisabledWhileInFlight == inversions # <<>> => invertButton.disabled

\* C16: the copy button is enabled iff the result field is non-empty, the
\* clear button iff the trimmed input or the result is non-empty, and, while
\* no inversion is in flight, the invert button iff the trimmed input is
\* non-empty.  (copyButton and clearButton hold the disabled flags.)
C16_ButtonsFollowContent ==
  /\ copyButton = (resultText = <<>>)
  /\ clearButton = (Blank(inputText) /\ resultText = <<>>)
  /\ (inversions = <<>> => invertButton.disabled = Blank(inputText))

\* An inversion has completed and the input was then replaced by a blank
\* text: copy and clear are enabled, invert is disabled.
C16_Witness ==
  /\ inputText = <<" ">>
  /\ resultText = <<"b", "a">>
  /\ inversions = <<>>
  /\ ~copyButton
  /\ ~clearButton
  /\ invertButton.disabled

\* C17: at most one message element is in the document.
C17_OneMessage == Cardinality(AttachedMessages(messages)) <= 1

\* A message has replaced another whose timers are still pending.
C17_Witness ==
  /\ Len(messages) = 2
  /\ ~messages[1].attached
  /\ messages[2].attached

\* The message elements in the document, each with its text and stage.
AttachedEls(ms) == {ms[i] : i \in AttachedMessages(ms)}

\* The element whose 3000 ms timer runs next, 0 when none is pending.
NextToFade ==
  IF \E i \in 1..Len(messages) : messages[i].stage = "shown"
  THEN CHOOSE i \in 1..Len(messages) :
         messages[i].stage = "shown" /\ \A j \in 1..(i - 1) : messages[j].stage # "shown"
  ELSE 0

\* C18: when a timer of a replaced message fires, the message now in the
\* document stays there, and stays in the stage it was in.
C18_OldTimersHarmless ==
  [][(\/ MessageTimeout /\ NextToFade # 0 /\ ~messages[NextToFade].attached
      \/ MessageRemoval /\ ~messages[1].attached) =>
       AttachedEls(messages') = AttachedEls(messages)]_vars

\* The 3000 ms timer of a replaced message has fired and its 300 ms timer is
\* pending, while the message that replaced it is shown.
C18_Witness ==
  /\ Len(messages) = 2
  /\ ~messages[1].attached
  /\ messages[1].stage = "fading"
  /\ messages[2].attached
  /\ messages[2].stage = "shown"

OnPage(id) == \E i \in 1..Len(messages) : messages[i].id = id /\ messages[i].attached

\* C13: every message that is displayed is eventually removed from the page,
\* by its own timers or by being replaced.
C13_AutoDismissed ==
  \A id \in MessageIds : OnPage(id) ~> ~OnPage(id)

\* A message has run through both of its timers and left the page, after an
\* inversion whose success message nothing replaced.
C13_Witness ==
  /\ messages = <<>>
  /\ resultText = <<"b", "a">>
  /\ inversions = <<>>
  /\ lastWrite = "none"
  /\ lastToggled = "none"
  /\ inputText = <<"a", "b">>

====
